---------------------------- MODULE Spec2Model ----------------------------
(***************************************************************************)
(* Reconciliation core of the ETL pipeline: the upsert loader              *)
(* (src/src/loading/sql_loader.py), the schema validator                   *)
(* (src/src/validation), the deduplication engine                          *)
(* (src/src/deduplication/dedup_engine.py) and the pipeline orchestrator   *)
(* (src/scripts/run_etl_pipeline.py).                                      *)
(*                                                                         *)
(* The specifications share one set of variables:                         *)
(*   SpecLoad   one SQLLoader object used directly, call after call        *)
(*   SpecRace   two SQLLoader objects, one upsert_data each, one store     *)
(*   SpecAddr   one SQLLoader object whose caller names table_name and     *)
(*              conflict_columns                                           *)
(*   SpecValid  DataValidator.validate applied to bounded input frames     *)
(*   SpecRun    ETLPipeline.run, stage by stage, with its own loader       *)
(*   SpecDedup  one DeduplicationEngine and one AdvancedDeduplicator       *)
(*              applied, call after call, to the caller's DataFrame        *)
(*   SpecClean  validate, then hash deduplication of what it returned      *)
(*   SpecHash   content_hash of the validator and of the engine            *)
(*   SpecReport one DataValidator, reused call after call                  *)
(***************************************************************************)
EXTENDS Integers, Sequences, FiniteSets, TLC

\* ------------------------------------------------------------------ bounds
MaxBatch == 2      \* longest batch handed to upsert_data
MaxCalls == 2      \* upsert_data calls one client makes in a row
MaxRows == 2       \* longest DataFrame handed to validate / read from a file
MaxRuns == 2       \* ETLPipeline.run calls on one pipeline object
MaxRecords == 3    \* longest DataFrame handed to the deduplication engine

\* ------------------------------------------------------- program constants
DescMax == 500     \* .str[:500] on descripcion
ErrorCap == 100    \* report_dict['errors'][:100]

\* ------------------------------------------------------------------ values
Loaders == {"L1", "L2"}

Keys == {"OP-00000001", "OP-00000002"}

Montos == {100, 250}

\* Columns the schema requires (OperationalSchema.get_schema).
Required ==
    {"fecha_operacion", "numero_operacion", "tipo_operacion", "monto", "moneda",
     "cuenta_origen", "banco_origen", "descripcion", "estado", "canal"}

\* Columns the upsert statements name (the nullable cuenta_destino and
\* banco_destino are taken to be present in every frame).
TableColumns == Required \cup {"content_hash"}

\* Columns of the table declared nullable=False.
NotNullColumns == Required \ {"descripcion"}

\* hash_columns of _generate_content_hash
HashColumns == <<"numero_operacion", "monto", "fecha_operacion", "cuenta_origen">>

NoHash == <<>>            \* content_hash of a row whose frame has no such column

\* The digest as it would be if it were taken over the description as well.
ContentHashWithDescription(r, cols) ==
    LET present(c) == c \in cols
        used == SelectSeq(HashColumns \o <<"descripcion">>, present)
    IN  [j \in 1..Len(used) |-> r[used[j]]]

\* sha256(''.join(str(row[col]) for col in hash_columns if col in df.columns)):
\* the digest is identified with the values it is computed from.
ContentHash(r, cols) ==
    LET present(c) == c \in cols
        used == SelectSeq(HashColumns, present)
    IN  [j \in 1..Len(used) |-> r[used[j]]]

\* A record of a batch: the columns of the DataFrame handed to the loader.
Row(k, m) ==
    LET r == [numero_operacion |-> k, monto |-> m, fecha_operacion |-> 1,
              cuenta_origen |-> "191-1234567-0-12", descripcion |-> 4,
              content_hash |-> NoHash]
    IN  [r EXCEPT !.content_hash = ContentHash(r, Required)]

\* The record in a frame that has no content_hash column.
WithoutHash(r) == [r EXCEPT !.content_hash = NoHash]

\* A DataFrame: the columns it has (among TableColumns), and its rows in
\* index order.
Frame(cols, rows) == [columns |-> cols, rows |-> rows]

\* One key comes with two amounts, so that an update can change a stored row.
LoadRows == {Row("OP-00000001", m) : m \in Montos} \cup {Row("OP-00000002", 100)}

RECURSIVE SeqsUpTo(_, _)
SeqsUpTo(S, n) ==
    IF n = 0 THEN {<<>>}
    ELSE LET shorter == SeqsUpTo(S, n - 1)
         IN  shorter \cup {Append(s, x) : s \in {t \in shorter : Len(t) = n - 1}, x \in S}

Batches == {Frame(TableColumns, rows) : rows \in SeqsUpTo(LoadRows, MaxBatch)}

NoStats == [rows_inserted |-> 0, rows_updated |-> 0, rows_failed |-> 0,
            total_processed |-> 0]

VARIABLES
    db_type,        \* DatabaseConfig.db_type: "sqlite" or "sqlserver"
    operaciones,    \* the operations table: sequence of stored rows, position = id
    staging,        \* a second table of the same layout a caller may name
    tableExists,    \* the table has been created in the store
    uniqueIdx,      \* UQ_operaciones_numero_operacion exists
    now,            \* logical clock read by pd.Timestamp.now()
    lpc,            \* per loader: position inside upsert_data
    engine,         \* per loader: "none", "open" or "disposed"
    metadataDef,    \* per loader: the Table is defined in self.metadata
    ldf,            \* per loader: rows of df_copy of the call in progress / last call
    lcols,          \* per loader: columns of that df_copy
    fecha_carga,    \* per loader: df_copy['fecha_carga'] of that call
    existing_ids,   \* per loader: keys read from the store
    upd,            \* per loader: index of the next row of update_rows
    load_stats,     \* per loader: self.load_stats
    outcome,        \* per loader: "none", "returned" or "raised" (last upsert_data)
    pre,            \* per loader: the table when the last upsert_data started
    table_name,     \* per loader: table_name of the last upsert_data
    conflict_columns, \* per loader: conflict_columns of the last upsert_data
    prev,           \* per loader: batch and outcome of the call before the last
    ncalls,         \* per loader: upsert_data calls started
    fault,          \* per loader: what went wrong in the store during the last call
    callcap,        \* per loader: upsert_data calls its caller will make
    vin,            \* the DataFrame handed to DataValidator.validate
    vexp,           \* its expected_checksum argument (NoChecksum for None)
    vout,           \* what validate gave back: state, df
    report,         \* the validator's self.report
    handed,         \* the reports validate has returned: as returned, and as
                    \* the object is now
    current,        \* which of them self.report is (0: none of them)
    dedup_stats,    \* DeduplicationEngine.dedup_stats
    din,            \* the caller's DataFrame, as the last call left it
    dcall,          \* the last call: its arguments, df and dedup_stats at its start
    dout,           \* what the last call gave back: state, df, stats
    dhist,          \* the calls that returned before the last one, with their results
    dn,             \* calls made on the engine and the deduplicator
    rpc,            \* ETLPipeline.run: position of the run in progress, or "idle"
    csv,            \* the frame pd.read_csv yields for the input file
    frame,          \* the DataFrame handed from stage to stage
    metrics,        \* self.metrics
    persisted,      \* metrics files: per pipeline_id, <<>> or <<the saved record>>
    log,            \* events the run in progress has logged, in order
    result,         \* how the last run ended: "none", "returned" or "raised"
    nruns,          \* runs started
    clock           \* datetime.now() to the second, read when a run starts

loaderVars == <<db_type, operaciones, staging, tableExists, uniqueIdx, now, lpc,
                engine, metadataDef, ldf, lcols, fecha_carga, existing_ids, upd,
                load_stats, outcome, pre, table_name, conflict_columns, prev,
                ncalls, fault, callcap>>

valVars == <<vin, vexp, vout, report, handed, current>>

dedupVars == <<dedup_stats, din, dcall, dout, dhist, dn>>

runVars == <<rpc, csv, frame, metrics, persisted, log, result, nruns, clock>>

vars == <<loaderVars, valVars, dedupVars, runVars>>

storeVars == <<operaciones, staging, tableExists, uniqueIdx>>

addrVars == <<table_name, conflict_columns>>

\* ----------------------------------------------------------------- helpers
Min(a, b) == IF a < b THEN a ELSE b

KeysOf(s) == {s[i].numero_operacion : i \in 1..Len(s)}

DistinctKeys(s) ==
    \A i, j \in 1..Len(s) : i # j => s[i].numero_operacion # s[j].numero_operacion

\* A row of the batch as it is written to the table, stamped with fecha_carga.
StoreRow(r, t) ==
    [numero_operacion |-> r.numero_operacion, monto |-> r.monto,
     fecha_operacion |-> r.fecha_operacion, cuenta_origen |-> r.cuenta_origen,
     descripcion |-> r.descripcion, content_hash |-> r.content_hash,
     fecha_carga |-> t]

Stamp(s, t) == [i \in 1..Len(s) |-> StoreRow(s[i], t)]

\* UPDATE ... SET <every column> WHERE numero_operacion = :num_op
UpdateWhere(tbl, r, t) ==
    [i \in 1..Len(tbl) |->
        IF tbl[i].numero_operacion = r.numero_operacion
        THEN StoreRow(r, t) ELSE tbl[i]]

RECURSIVE UpdateAll(_, _, _)
UpdateAll(tbl, s, t) ==
    IF s = <<>> THEN tbl
    ELSE UpdateAll(UpdateWhere(tbl, Head(s), t), Tail(s), t)

\* df_copy[~df_copy['numero_operacion'].isin(existing_ids)]
new_rows(p) ==
    LET isNew(r) == r.numero_operacion \notin existing_ids[p]
    IN  SelectSeq(ldf[p], isNew)

\* df_copy[df_copy['numero_operacion'].isin(existing_ids)]
update_rows(p) ==
    LET isOld(r) == r.numero_operacion \in existing_ids[p]
    IN  SelectSeq(ldf[p], isOld)

\* .astype(str).str[:500]
Truncate(r) == [r EXCEPT !.descripcion = Min(r.descripcion, DescMax)]

Source(p) == [i \in 1..Len(ldf[p]) |-> Truncate(ldf[p][i])]

\* The SQLLoader objects that are in use.
Clients == {p \in Loaders : callcap[p] > 0}

\* table_name arguments: the default, and another table of the store.
TableNames == {"operaciones", "staging"}

NoConflictColumns == <<>>       \* conflict_columns = None

\* if conflict_columns is None: conflict_columns = ['numero_operacion']
DefaultConflictColumns == <<"numero_operacion">>

\* conflict_columns arguments: None, and the operation number with the amount.
ConflictChoices == {NoConflictColumns, <<"numero_operacion", "monto">>}

\* The table f"{table_name}" names.
Table(name) == IF name = "operaciones" THEN operaciones ELSE staging

\* The tables as they are once table name holds rows.
Written(name, rows) ==
    IF name = "operaciones"
    THEN operaciones' = rows /\ UNCHANGED staging
    ELSE staging' = rows /\ UNCHANGED operaciones

\* Table name is there; the second table always is.
Exists(name) == name = "operaciones" => tableExists

\* Table name carries the unique index on numero_operacion.
Unique(name) == name = "operaciones" /\ uniqueIdx

\* --------------------------------------------------------------- validator
MaxMonto == 1000000

BadKey == "OP-1"          \* does not match ^OP-\d{8}$

NULL == 0 - 1             \* the value of a field whose column is absent

NoIndex == 0 - 1          \* index None of a schema-level failure case

NoChecksum == 0 - 1       \* expected_checksum = None

WithoutMonto(r) == [r EXCEPT !.monto = NULL]

\* Check.str_matches(r"^OP-\d{8}$")
KeyWellFormed(k) == k \in Keys

\* Check.greater_than(0) and Check.less_than_or_equal_to(1_000_000)
MontoPositive(m) == m > 0

MontoWithinLimit(m) == m <= MaxMonto

Idx(n) == [i \in 1..n |-> i]

\* Failure cases of one element-wise check: one per failing row, carrying
\* the row's index label (labels start at 0).
CheckCases(rows, col, check, Fails(_)) ==
    LET bad == SelectSeq(Idx(Len(rows)), Fails)
    IN  [j \in 1..Len(bad) |-> [index |-> bad[j] - 1, column |-> col, check |-> check]]

\* unique=True: every row whose numero_operacion occurs more than once.
Duplicated(rows, i) ==
    \E j \in 1..Len(rows) : j # i /\ rows[j].numero_operacion = rows[i].numero_operacion

\* self.schema.validate(df, lazy=True): the failure cases it collects.  A
\* required column that is absent gives one schema-level case without index.
FailureCases(df) ==
    LET rows == df.rows
        notUnique(i) == Duplicated(rows, i)
        badKey(i)    == ~KeyWellFormed(rows[i].numero_operacion)
        notPos(i)    == ~MontoPositive(rows[i].monto)
        tooBig(i)    == ~MontoWithinLimit(rows[i].monto)
        absent(c)    == IF c \in df.columns THEN <<>>
                        ELSE <<[index |-> NoIndex, column |-> "None",
                                check |-> "column_in_dataframe"]>>
    IN  absent("numero_operacion") \o absent("monto")
        \o (IF "numero_operacion" \in df.columns
            THEN CheckCases(rows, "numero_operacion", "field_uniqueness", notUnique)
                 \o CheckCases(rows, "numero_operacion", "str_matches", badKey)
            ELSE <<>>)
        \o (IF "monto" \in df.columns
            THEN CheckCases(rows, "monto", "greater_than(0)", notPos)
                 \o CheckCases(rows, "monto", "less_than_or_equal_to(1000000)", tooBig)
            ELSE <<>>)

\* ValidationReport()
NewReport ==
    [total_rows |-> 0, valid_rows |-> 0, invalid_rows |-> 0,
     errors |-> <<>>, warnings |-> <<>>]

\* report.add_error for every failure case, in order
Errors(cases) ==
    [j \in 1..Len(cases) |->
        [row |-> cases[j].index, column |-> cases[j].column, error |-> cases[j].check]]

\* failure_cases['index'].dropna(), as a set of ints
InvalidIndices(cases) ==
    {cases[j].index : j \in {n \in 1..Len(cases) : cases[n].index # NoIndex}}

\* _handle_schema_errors: df[~df.index.isin(invalid_indices)] when there is
\* an invalid index, df.copy() otherwise.
HandleSchemaErrors(df, cases) ==
    LET invalid == InvalidIndices(cases)
        keep(i) == (i - 1) \notin invalid
        kept    == SelectSeq(Idx(Len(df.rows)), keep)
    IN  IF invalid # {}
        THEN Frame(df.columns, [j \in 1..Len(kept) |-> df.rows[kept[j]]])
        ELSE df

RECURSIVE SumMonto(_)
SumMonto(rows) ==
    IF rows = <<>> THEN 0 ELSE Head(rows).monto + SumMonto(Tail(rows))

\* OperationalSchema.validate_checksum: abs(actual - expected) < tolerance,
\* on whole amounts.
ChecksumValid(df, expected) == SumMonto(df.rows) = expected

\* validate as it would be if the report counted failure cases instead of
\* rows.
ValidateCountingCases(df, expected) ==
    LET cases == FailureCases(df)
        valid == IF cases = <<>> THEN df ELSE HandleSchemaErrors(df, cases)
        rep0  == [NewReport EXCEPT !.total_rows = Len(df.rows),
                                   !.errors = Errors(cases),
                                   !.valid_rows = Len(df.rows) - Len(cases)]
    IN  IF expected # NoChecksum /\ "monto" \notin df.columns
        THEN [state |-> "raised", df |-> Frame({}, <<>>), report |-> rep0]
        ELSE [state |-> "returned", df |-> valid,
              report |-> [rep0 EXCEPT !.invalid_rows = Len(cases)]]

\* DataValidator.validate(df, expected_checksum): the returned frame and the
\* report, or the exception that leaves the call (df['monto'] on a frame
\* without that column raises KeyError inside the checksum).
Validate(df, expected) ==
    LET cases == FailureCases(df)
        valid == IF cases = <<>> THEN df ELSE HandleSchemaErrors(df, cases)
        rep0  == [NewReport EXCEPT !.total_rows = Len(df.rows),
                                   !.errors = Errors(cases),
                                   !.valid_rows = Len(valid.rows)]
        warn  == expected # NoChecksum /\ ~ChecksumValid(valid, expected)
    IN  IF expected # NoChecksum /\ "monto" \notin df.columns
        THEN [state |-> "raised", df |-> Frame({}, <<>>), report |-> rep0]
        ELSE [state |-> "returned", df |-> valid,
              report |-> [rep0 EXCEPT
                            !.warnings = IF warn THEN <<"Checksum mismatch">> ELSE <<>>,
                            !.invalid_rows = Len(df.rows) - Len(valid.rows)]]

\* DataValidator.generate_content_hash, the lambda: the digest of
\* ''.join(str(row[col]) for col in hash_columns), identified with the values
\* it is computed from.
ValidatorContentHash(r) == [j \in 1..Len(HashColumns) |-> r[HashColumns[j]]]

\* DataValidator.generate_content_hash(df): df[hash_columns] raises KeyError
\* when a hash column is absent; otherwise the column is assigned on the
\* caller's frame, which is returned.
ValidatorGenerateContentHash(df) ==
    IF {HashColumns[j] : j \in 1..Len(HashColumns)} \subseteq df.columns
    THEN [state |-> "returned",
          df |-> Frame(df.columns \cup {"content_hash"},
                       [i \in 1..Len(df.rows) |->
                           [df.rows[i] EXCEPT !.content_hash =
                                                 ValidatorContentHash(df.rows[i])]])]
    ELSE [state |-> "raised", df |-> df]

InvalidMonto == 0 - 50

\* Raw records: well-formed or malformed key, valid, non-positive or
\* excessive amount.
RawRows ==
    {Row(k, m) : k \in Keys \cup {BadKey}, m \in {InvalidMonto, 100, 2 * MaxMonto}}

\* A batch with more violations than report_dict['errors'][:100] keeps:
\* ErrorCap + 1 records of one operation with a non-positive amount.
LongRows == [i \in 1..(ErrorCap + 1) |-> Row("OP-00000001", InvalidMonto)]

\* Input frames: complete ones, ones read without the monto column, and the
\* long batch.
RawFrames ==
    {Frame(Required, rows) : rows \in SeqsUpTo(RawRows, MaxRows)}
    \cup {Frame(Required \ {"monto"}, rows) :
            rows \in SeqsUpTo({WithoutMonto(r) : r \in RawRows}, MaxRows)}
    \cup {Frame(Required, LongRows)}

Checksums == {NoChecksum, 100}

\* DataValidator.validate_duplicates(df): the is_duplicate column
\* (duplicated(subset=['numero_operacion'], keep='first')) is assigned on the
\* caller's frame, which is returned; a warning is added to self.report when
\* a row is flagged.
ValidateDuplicates(df, rep) ==
    LET dup(i)  == \E j \in 1..(i - 1) :
                      df.rows[j].numero_operacion = df.rows[i].numero_operacion
        with(r, flag) == [c \in DOMAIN r \cup {"is_duplicate"} |->
                            IF c = "is_duplicate" THEN flag ELSE r[c]]
        flagged == Frame(df.columns \cup {"is_duplicate"},
                         [i \in 1..Len(df.rows) |-> with(df.rows[i], dup(i))])
        count   == Cardinality({i \in 1..Len(df.rows) : dup(i)})
    IN  [df |-> flagged,
         report |-> IF count > 0
                    THEN [rep EXCEPT !.warnings =
                                        Append(@, "Found duplicate operation IDs")]
                    ELSE rep]

\* self.report changes: the returned report that is the same object changes
\* with it.
Held(rep) ==
    IF current = 0 THEN handed ELSE [handed EXCEPT ![current].held = rep]

\* Frames handed to one validator, call after call: records of two
\* operations with valid and non-positive amounts.
ReportFrames ==
    {Frame(TableColumns, rows) :
        rows \in SeqsUpTo({Row("OP-00000001", 100), Row("OP-00000002", InvalidMonto)},
                          MaxRows)}

NoValidator ==
    /\ vin = Frame(Required, <<>>)
    /\ vexp = NoChecksum
    /\ vout = [state |-> "none", df |-> Frame(Required, <<>>)]
    /\ report = NewReport
    /\ handed = <<>>
    /\ current = 0

\* ---------------------------------------------------- deduplication engine
\* df.duplicated(subset=['content_hash'], keep='first')
DuplicatedHash(rows, i) ==
    \E j \in 1..(i - 1) : rows[j].content_hash = rows[i].content_hash

\* _generate_content_hash: df['content_hash'] = df.apply(create_hash, axis=1)
GenerateContentHash(df) ==
    Frame(df.columns \cup {"content_hash"},
          [i \in 1..Len(df.rows) |->
              [df.rows[i] EXCEPT !.content_hash = ContentHash(df.rows[i], df.columns)]])

\* deduplicate(df, 'hash') as it would be if duplicates_found counted every
\* member of a duplicate group (keep=False) instead of the later ones.
DeduplicateByHashCountingAll(df) ==
    LET hashed == IF "content_hash" \in df.columns THEN df ELSE GenerateContentHash(df)
        first(i) == ~DuplicatedHash(hashed.rows, i)
        member(i) == \E j \in 1..Len(hashed.rows) :
                        j # i /\ hashed.rows[j].content_hash = hashed.rows[i].content_hash
        kept == SelectSeq(Idx(Len(hashed.rows)), first)
        out  == Frame(hashed.columns, [j \in 1..Len(kept) |-> hashed.rows[kept[j]]])
    IN  [df |-> out,
         stats |-> [total_input |-> Len(df.rows),
                    duplicates_found |-> Len(SelectSeq(Idx(Len(hashed.rows)), member)),
                    duplicates_removed |-> Len(df.rows) - Len(out.rows),
                    final_count |-> Len(out.rows)]]

\* DeduplicationEngine.deduplicate(df, strategy='hash'): the frame without
\* the later rows of every hash, and the statistics.
DeduplicateByHash(df) ==
    LET hashed == IF "content_hash" \in df.columns THEN df ELSE GenerateContentHash(df)
        first(i) == ~DuplicatedHash(hashed.rows, i)
        kept == SelectSeq(Idx(Len(hashed.rows)), first)
        out  == Frame(hashed.columns, [j \in 1..Len(kept) |-> hashed.rows[kept[j]]])
    IN  [df |-> out,
         stats |-> [total_input |-> Len(df.rows),
                    duplicates_found |-> Len(df.rows) - Len(kept),
                    duplicates_removed |-> Len(df.rows) - Len(out.rows),
                    final_count |-> Len(out.rows)]]

\* self.dedup_stats of a new DeduplicationEngine
NewStats ==
    [total_input |-> 0, duplicates_found |-> 0, duplicates_removed |-> 0,
     final_count |-> 0]

NoKeyColumns == <<>>      \* key_columns = None

DefaultKeyColumns == <<"numero_operacion">>

ColumnsOf(cols) == {cols[n] : n \in 1..Len(cols)}

\* df.duplicated(subset=cols, keep='first')
DuplicatedOn(rows, cols, i) ==
    \E j \in 1..(i - 1) : \A n \in 1..Len(cols) : rows[j][cols[n]] = rows[i][cols[n]]

\* _deduplicate_by_key as it would be with keep='last'.
DeduplicateByKeyKeepLast(df, key_columns) ==
    LET last(i) == ~\E j \in (i + 1)..Len(df.rows) :
                       \A n \in 1..Len(key_columns) :
                           df.rows[j][key_columns[n]] = df.rows[i][key_columns[n]]
        kept == SelectSeq(Idx(Len(df.rows)), last)
    IN  [df |-> Frame(df.columns, [j \in 1..Len(kept) |-> df.rows[kept[j]]]),
         duplicates_found |-> Len(df.rows) - Len(kept)]

\* _deduplicate_by_key: the frame without the later rows of every key, and
\* duplicates_mask.sum()
DeduplicateByKey(df, key_columns) ==
    LET first(i) == ~DuplicatedOn(df.rows, key_columns, i)
        kept == SelectSeq(Idx(Len(df.rows)), first)
    IN  [df |-> Frame(df.columns, [j \in 1..Len(kept) |-> df.rows[kept[j]]]),
         duplicates_found |-> Len(df.rows) - Len(kept)]

\* The caller's DataFrame after deduplicate(df, 'hash'): _deduplicate_by_hash
\* hands the caller's object to _generate_content_hash, which assigns the
\* new column on it.
AfterHash(df) ==
    IF "content_hash" \in df.columns THEN df ELSE GenerateContentHash(df)

\* deduplicate as it would be if duplicates_found were added to the count the
\* engine already holds.
DeduplicateAccumulating(stats, df, strategy, key_columns) ==
    LET counted == [stats EXCEPT !.total_input = Len(df.rows)]
        keys == IF key_columns = NoKeyColumns THEN DefaultKeyColumns ELSE key_columns
        raised(input) ==
            [state |-> "raised", df |-> Frame({}, <<>>), stats |-> NewStats,
             engine |-> counted, input |-> input]
        returned(res, found, input) ==
            LET final == [counted EXCEPT
                            !.duplicates_found = stats.duplicates_found + found,
                            !.final_count = Len(res.rows),
                            !.duplicates_removed = Len(df.rows) - Len(res.rows)]
            IN  [state |-> "returned", df |-> res, stats |-> final,
                 engine |-> final, input |-> input]
    IN  CASE strategy = "hash" ->
               LET h == DeduplicateByHash(df)
               IN  returned(h.df, h.stats.duplicates_found, AfterHash(df))
          [] strategy = "key" ->
               IF ColumnsOf(keys) \subseteq df.columns
               THEN LET k == DeduplicateByKey(df, keys)
                    IN  returned(k.df, k.duplicates_found, df)
               ELSE raised(df)
          [] OTHER -> raised(df)

\* DeduplicationEngine.deduplicate(df, strategy, key_columns) on an engine
\* whose dedup_stats is stats: how the call ends, the frame and the copy of
\* the statistics it returns, self.dedup_stats after it (engine) and the
\* caller's frame after it (input).
DeduplicationEngineDeduplicate(stats, df, strategy, key_columns) ==
    LET counted == [stats EXCEPT !.total_input = Len(df.rows)]
        keys == IF key_columns = NoKeyColumns THEN DefaultKeyColumns ELSE key_columns
        raised(input) ==
            [state |-> "raised", df |-> Frame({}, <<>>), stats |-> NewStats,
             engine |-> counted, input |-> input]
        returned(res, found, input) ==
            LET final == [counted EXCEPT
                            !.duplicates_found = found,
                            !.final_count = Len(res.rows),
                            !.duplicates_removed = Len(df.rows) - Len(res.rows)]
            IN  [state |-> "returned", df |-> res, stats |-> final,
                 engine |-> final, input |-> input]
    IN  CASE strategy = "hash" ->
               LET h == DeduplicateByHash(df)
               IN  returned(h.df, h.stats.duplicates_found, AfterHash(df))
          [] strategy = "key" ->
               IF ColumnsOf(keys) \subseteq df.columns
               THEN LET k == DeduplicateByKey(df, keys)
                    IN  returned(k.df, k.duplicates_found, df)
               ELSE raised(df)
          [] OTHER -> raised(df)

\* get_dedup_report: dedup_stats, and duplicates_removed / total_input kept
\* as the pair (numerator, denominator), (0, 1) for the rate 0.
GetDedupReport(stats) ==
    [dedup_stats |-> stats,
     duplicate_rate |-> IF stats.total_input > 0
                        THEN <<stats.duplicates_removed, stats.total_input>>
                        ELSE <<0, 1>>]

\* ---------------------------------------------------- AdvancedDeduplicator
\* Sort position of a value of column c: operation numbers sort as strings,
\* the other sort columns are numbers.
Ord(c, v) ==
    IF c = "numero_operacion" THEN (IF v = "OP-00000001" THEN 1 ELSE 2) ELSE v

\* Row a sorts strictly before row b under sort_values(by, ascending).
RECURSIVE Precedes(_, _, _, _)
Precedes(a, b, by, ascending) ==
    IF by = <<>> THEN FALSE
    ELSE LET x == Ord(Head(by), a[Head(by)])
             y == Ord(Head(by), b[Head(by)])
         IN  IF x = y THEN Precedes(a, b, Tail(by), Tail(ascending))
             ELSE IF Head(ascending) THEN x < y ELSE x > y

RECURSIVE Insert(_, _, _, _)
Insert(sorted, r, by, ascending) ==
    IF sorted = <<>> THEN <<r>>
    ELSE IF Precedes(r, Head(sorted), by, ascending) THEN <<r>> \o sorted
    ELSE <<Head(sorted)>> \o Insert(Tail(sorted), r, by, ascending)

\* df.sort_values(by=by, ascending=ascending) on several columns: rows that
\* tie on every column keep their input order.
RECURSIVE SortValues(_, _, _)
SortValues(rows, by, ascending) ==
    IF rows = <<>> THEN <<>>
    ELSE Insert(SortValues(SubSeq(rows, 1, Len(rows) - 1), by, ascending),
                rows[Len(rows)], by, ascending)

AllAscending(cols) == [n \in 1..Len(cols) |-> TRUE]

\* deduplicate_with_priority as it would be if it sorted the priority column
\* in ascending order whatever priority_order says.
DeduplicateIgnoringOrder(df, key_columns, priority_column, priority_order) ==
    LET df_sorted == SortValues(df.rows, key_columns \o <<priority_column>>,
                                AllAscending(key_columns) \o <<TRUE>>)
        first(i) == ~DuplicatedOn(df_sorted, key_columns, i)
        kept == SelectSeq(Idx(Len(df_sorted)), first)
    IN  Frame(df.columns, [j \in 1..Len(kept) |-> df_sorted[kept[j]]])

\* deduplicate_with_priority: sort by key and priority, keep the first row
\* of every key.
DeduplicateWithPriority(df, key_columns, priority_column, priority_order) ==
    LET ascending == priority_order = "asc"
        df_sorted == SortValues(df.rows, key_columns \o <<priority_column>>,
                                AllAscending(key_columns) \o <<ascending>>)
        first(i) == ~DuplicatedOn(df_sorted, key_columns, i)
        kept == SelectSeq(Idx(Len(df_sorted)), first)
    IN  Frame(df.columns, [j \in 1..Len(kept) |-> df_sorted[kept[j]]])

\* Columns of the frames that hold missing values.
NullableColumns == {"banco_destino"}

IsNull(c, v) == c \in NullableColumns /\ v = NULL

RECURSIVE SumOf(_)
SumOf(vals) == IF vals = <<>> THEN 0 ELSE Head(vals) + SumOf(Tail(vals))

\* GroupBy aggregation how of column c over the values of a group, in input
\* order: every reducer skips the missing values.
Reduce(how, c, vals) ==
    LET present(v) == ~IsNull(c, v)
        nonnull == SelectSeq(vals, present)
        n == Len(nonnull)
    IN  CASE how = "sum" -> SumOf(nonnull)
          [] n = 0 -> NULL
          [] how = "first" -> nonnull[1]
          [] how = "last" -> nonnull[n]
          [] how = "max" -> CHOOSE v \in ColumnsOf(nonnull) :
                                \A w \in ColumnsOf(nonnull) : Ord(c, w) <= Ord(c, v)
          [] how = "min" -> CHOOSE v \in ColumnsOf(nonnull) :
                                \A w \in ColumnsOf(nonnull) : Ord(c, v) <= Ord(c, w)

NoStrategy == {}          \* merge_strategy = {}

\* agg_dict[col]
AggOf(merge_strategy, key_columns, c) ==
    IF c \in ColumnsOf(key_columns) THEN "first"
    ELSE IF \E e \in merge_strategy : e[1] = c
    THEN (CHOOSE e \in merge_strategy : e[1] = c)[2]
    ELSE "first"

\* merge_duplicates: df.groupby(key_columns, as_index=False).agg(agg_dict),
\* one row per key in key order.
MergeDuplicates(df, key_columns, merge_strategy) ==
    LET by_key == SortValues(df.rows, key_columns, AllAscending(key_columns))
        first(i) == ~DuplicatedOn(by_key, key_columns, i)
        heads == SelectSeq(Idx(Len(by_key)), first)
        merged(g) ==
            LET member(r) == \A n \in 1..Len(key_columns) :
                                 r[key_columns[n]] = g[key_columns[n]]
                group == SelectSeq(df.rows, member)
            IN  [c \in DOMAIN g |->
                    IF c \in df.columns
                    THEN Reduce(AggOf(merge_strategy, key_columns, c), c,
                                [i \in 1..Len(group) |-> group[i][c]])
                    ELSE g[c]]
    IN  Frame(df.columns, [j \in 1..Len(heads) |-> merged(by_key[heads[j]])])

\* ------------------------------------------------- deduplication inputs
\* A record of a frame handed to the deduplication: key, amount, date and
\* the nullable banco_destino.
DedupRow(k, m, f, b) ==
    LET r == [numero_operacion |-> k, monto |-> m, fecha_operacion |-> f,
              cuenta_origen |-> "191-1234567-0-12", descripcion |-> 4,
              banco_destino |-> b, content_hash |-> NoHash]
    IN  [r EXCEPT !.content_hash = ContentHash(r, Required)]

DedupColumns == TableColumns \cup {"banco_destino"}

\* Three records of one operation with dates 1 < 2 < 3, the first without
\* banco_destino, and a record of another operation.
DedupRows ==
    {DedupRow("OP-00000001", 100, 1, NULL), DedupRow("OP-00000001", 100, 2, 7),
     DedupRow("OP-00000001", 250, 3, 8), DedupRow("OP-00000002", 100, 1, 7)}

\* Frames with the content_hash column, and frames without it that hold one
\* record of each operation.
DedupFrames ==
    {Frame(DedupColumns, rows) : rows \in SeqsUpTo(DedupRows, MaxRecords)}
    \cup {Frame(DedupColumns \ {"content_hash"}, rows) :
            rows \in SeqsUpTo({WithoutHash(DedupRow("OP-00000001", 100, 1, NULL)),
                               WithoutHash(DedupRow("OP-00000002", 100, 1, 7))},
                              MaxRecords)}

NoArgs ==
    [op |-> "none", strategy |-> "", key_columns |-> NoKeyColumns,
     priority_column |-> "", priority_order |-> "", merge_strategy |-> NoStrategy]

\* engine.deduplicate(df, strategy=..., key_columns=...)
DeduplicateArgs ==
    {[NoArgs EXCEPT !.op = "deduplicate", !.strategy = s] : s \in {"hash", "key", "fuzzy"}}
    \cup {[NoArgs EXCEPT !.op = "deduplicate", !.strategy = "key",
                         !.key_columns = <<"numero_operacion", "monto">>]}

\* adv_dedup.deduplicate_with_priority(df, key_columns=['numero_operacion'], ...)
PriorityArgs ==
    {[NoArgs EXCEPT !.op = "deduplicate_with_priority",
                    !.key_columns = DefaultKeyColumns,
                    !.priority_column = c, !.priority_order = o] :
        c \in {"fecha_operacion"}, o \in {"asc", "desc"}}

\* adv_dedup.merge_duplicates(df, ['numero_operacion'], merge_strategy)
MergeArgs ==
    {[NoArgs EXCEPT !.op = "merge_duplicates", !.key_columns = DefaultKeyColumns,
                    !.merge_strategy = ms] :
        ms \in {NoStrategy, {<<"monto", "sum">>, <<"banco_destino", "last">>,
                             <<"fecha_operacion", "max">>}}}

NoCall == [args |-> NoArgs, df |-> Frame({}, <<>>), stats |-> NewStats]

NoResult == [state |-> "none", df |-> Frame({}, <<>>), stats |-> NewStats]

NoDeduplicator ==
    /\ dedup_stats = NewStats
    /\ din = Frame({}, <<>>)
    /\ dcall = NoCall
    /\ dout = NoResult
    /\ dhist = {}
    /\ dn = 0

\* ----------------------------------------------------------------- metrics
\* PipelineMetrics(pipeline_id=..., start_time=..., input_file=...)
NewMetrics(id) ==
    [pipeline_id |-> id, input_rows |-> 0,
     validation_passed |-> 0, validation_failed |-> 0, validation_errors |-> <<>>,
     duplicates_found |-> 0, duplicates_removed |-> 0,
     rows_loaded |-> 0, rows_updated |-> 0, load_failed |-> 0,
     status |-> "running", error_message |-> "", finalized |-> FALSE]

\* report_dict['errors'][:100]
FirstErrors(errors) == SubSeq(errors, 1, Min(Len(errors), ErrorCap))

\* The file read_csv cannot parse: parse_dates names a column it lacks.
Unreadable == Frame(TableColumns \ {"fecha_operacion"}, <<>>)

\* A record of an input file that has its own content_hash column.
CsvRow(k, m, h) == [Row(k, m) EXCEPT !.content_hash = h]

\* Records of an input file: two valid ones with different keys and the same
\* digest.
CsvRows ==
    {CsvRow("OP-00000001", 100, <<"h1">>), CsvRow("OP-00000002", 100, <<"h1">>)}

\* Input files: complete ones, ones without the content_hash column (valid
\* and non-positive amounts), ones without the monto column, and the
\* unreadable one.
CsvFiles ==
    {Frame(TableColumns, rows) : rows \in SeqsUpTo(CsvRows, MaxRows)}
    \cup {Frame(Required, rows) :
            rows \in SeqsUpTo({WithoutHash(Row("OP-00000001", 100)),
                               WithoutHash(Row("OP-00000002", InvalidMonto))}, MaxRows)}
    \cup {Frame(TableColumns \ {"monto"}, rows) :
            rows \in SeqsUpTo({WithoutMonto(CsvRow("OP-00000001", 100, <<"h1">>))},
                              MaxRows)}
    \cup {Unreadable}

StageEvents ==
    <<"extraction_started", "extraction_completed",
      "validation_started", "validation_completed",
      "deduplication_started", "deduplication_completed",
      "loading_started", "loading_completed">>

NoPipeline ==
    /\ rpc = "idle"
    /\ csv = Unreadable
    /\ frame = Frame({}, <<>>)
    /\ metrics = NewMetrics(0)
    /\ persisted = [i \in 1..MaxRuns |-> <<>>]
    /\ log = <<>>
    /\ result = "none"
    /\ nruns = 0
    /\ clock = 1

\* -------------------------------------------------------------------- Init
\* A store nothing has been loaded into.
EmptyStore ==
    /\ db_type \in {"sqlite", "sqlserver"}
    /\ operaciones = <<>>
    /\ staging = <<>>
    /\ tableExists = FALSE
    /\ uniqueIdx = FALSE

\* A store an earlier load has left one operation in.
LoadedStore ==
    /\ db_type \in {"sqlite", "sqlserver"}
    /\ operaciones = <<StoreRow(Row("OP-00000001", 250), 0)>>
    /\ staging = <<>>
    /\ tableExists = TRUE
    /\ uniqueIdx = (db_type = "sqlserver")

\* A store an earlier load has left both operations in.
SharedStore ==
    /\ db_type \in {"sqlite", "sqlserver"}
    /\ operaciones = <<StoreRow(Row("OP-00000001", 250), 0),
                       StoreRow(Row("OP-00000002", 100), 0)>>
    /\ staging = <<>>
    /\ tableExists = TRUE
    /\ uniqueIdx = (db_type = "sqlserver")

NewLoaders ==
    /\ now = 1
    /\ lpc = [p \in Loaders |-> "idle"]
    /\ engine = [p \in Loaders |-> "none"]
    /\ metadataDef = [p \in Loaders |-> FALSE]
    /\ ldf = [p \in Loaders |-> <<>>]
    /\ lcols = [p \in Loaders |-> TableColumns]
    /\ fecha_carga = [p \in Loaders |-> 0]
    /\ existing_ids = [p \in Loaders |-> {}]
    /\ upd = [p \in Loaders |-> 0]
    /\ load_stats = [p \in Loaders |-> NoStats]
    /\ outcome = [p \in Loaders |-> "none"]
    /\ pre = [p \in Loaders |-> <<>>]
    /\ table_name = [p \in Loaders |-> "operaciones"]
    /\ conflict_columns = [p \in Loaders |-> DefaultConflictColumns]
    /\ prev = [p \in Loaders |-> [df |-> <<>>, outcome |-> "none"]]
    /\ ncalls = [p \in Loaders |-> 0]
    /\ fault = [p \in Loaders |-> "none"]

InitStore == EmptyStore /\ NewLoaders

InitLoad ==
    /\ InitStore
    /\ callcap = [p \in Loaders |-> IF p = "L1" THEN MaxCalls ELSE 0]
    /\ NoValidator
    /\ NoDeduplicator
    /\ NoPipeline

InitRace ==
    /\ EmptyStore \/ SharedStore
    /\ NewLoaders
    /\ callcap = [p \in Loaders |-> 1]
    /\ NoValidator
    /\ NoDeduplicator
    /\ NoPipeline

\* ---------------------------------------------------------- loader actions
\* upsert_data returns self.load_stats.copy()
Return(p, stats) ==
    /\ load_stats' = [load_stats EXCEPT ![p] = stats]
    /\ outcome' = [outcome EXCEPT ![p] = "returned"]
    /\ lpc' = [lpc EXCEPT ![p] = "idle"]

\* except Exception: rows_failed = len(df); raise RuntimeError.
\* why is "store" when the store round trip itself failed, "constraint" when
\* the store refused the rows, "no_table" when the target table is missing.
Raise(p, why) ==
    /\ load_stats' = [load_stats EXCEPT ![p].rows_failed = Len(ldf[p])]
    /\ fault' = [fault EXCEPT ![p] = why]
    /\ outcome' = [outcome EXCEPT ![p] = "raised"]
    /\ lpc' = [lpc EXCEPT ![p] = "idle"]

\* create_table: define the Table in self.metadata, create_all, and on
\* SQL Server try to create the unique index (its failure is swallowed).
\* A second call on the same loader raises before touching the store.
\* ok: create_all went through; otherwise it raised and nothing was created.
CreateTable(p, ok) ==
    /\ lpc[p] = "idle"
    /\ ~metadataDef[p]
    /\ engine' = [engine EXCEPT ![p] = "open"]
    /\ metadataDef' = [metadataDef EXCEPT ![p] = TRUE]
    /\ IF ok
       THEN /\ tableExists' = TRUE
            /\ \/ uniqueIdx' = (uniqueIdx \/ (db_type = "sqlserver" /\ DistinctKeys(operaciones)))
               \/ uniqueIdx' = uniqueIdx
       ELSE UNCHANGED <<tableExists, uniqueIdx>>
    /\ UNCHANGED <<db_type, operaciones, staging, now, lpc, ldf, lcols, fecha_carga,
                   existing_ids, upd, load_stats, outcome, pre, prev, ncalls,
                   fault, callcap, addrVars>>

\* upsert_data(df, table_name, conflict_columns), up to the dispatch on
\* db_type.
UpsertData(p, df, name, columns) ==
    /\ lpc[p] = "idle"
    /\ ncalls[p] < callcap[p]
    /\ table_name' = [table_name EXCEPT ![p] = name]
    /\ conflict_columns' = [conflict_columns EXCEPT
                              ![p] = IF columns = NoConflictColumns
                                     THEN DefaultConflictColumns ELSE columns]
    /\ engine' = [engine EXCEPT ![p] = "open"]
    /\ load_stats' = [load_stats EXCEPT
                        ![p] = [NoStats EXCEPT !.total_processed = Len(df.rows)]]
    /\ ldf' = [ldf EXCEPT ![p] = df.rows]
    /\ lcols' = [lcols EXCEPT ![p] = df.columns]
    /\ fecha_carga' = [fecha_carga EXCEPT ![p] = now]
    /\ now' = now + 1
    /\ lpc' = [lpc EXCEPT ![p] = IF db_type = "sqlite" THEN "read_sql" ELSE "merge"]
    /\ outcome' = [outcome EXCEPT ![p] = "none"]
    /\ pre' = [pre EXCEPT ![p] = Table(name)]
    /\ prev' = [prev EXCEPT ![p] = [df |-> ldf[p], outcome |-> outcome[p]]]
    /\ ncalls' = [ncalls EXCEPT ![p] = @ + 1]
    /\ fault' = [fault EXCEPT ![p] = "none"]
    /\ UNCHANGED <<db_type, storeVars, metadataDef, existing_ids, upd, callcap>>

\* upsert_data when self.engine is None and connect() raises ConnectionError:
\* the exception leaves before load_stats is reset.
UpsertConnectFails(p) ==
    /\ lpc[p] = "idle"
    /\ engine[p] = "none"
    /\ ncalls[p] < callcap[p]
    /\ \E df \in Batches :
          /\ ldf' = [ldf EXCEPT ![p] = df.rows]
          /\ lcols' = [lcols EXCEPT ![p] = df.columns]
          /\ prev' = [prev EXCEPT ![p] = [df |-> ldf[p], outcome |-> outcome[p]]]
    /\ outcome' = [outcome EXCEPT ![p] = "raised"]
    /\ pre' = [pre EXCEPT ![p] = operaciones]
    /\ ncalls' = [ncalls EXCEPT ![p] = @ + 1]
    /\ fault' = [fault EXCEPT ![p] = "connect"]
    /\ UNCHANGED <<db_type, storeVars, now, lpc, engine, metadataDef,
                   fecha_carga, existing_ids, upd, load_stats, callcap, addrVars>>

\* After the key lookup / the bulk insert: go on to the next non-empty part.
AfterInsert(p, ids, inserted) ==
    LET olds == LET isOld(r) == r.numero_operacion \in ids IN SelectSeq(ldf[p], isOld)
    IN  IF olds # <<>>
        THEN /\ lpc' = [lpc EXCEPT ![p] = "update"]
             /\ upd' = [upd EXCEPT ![p] = 1]
             /\ load_stats' = [load_stats EXCEPT ![p].rows_inserted = inserted]
             /\ UNCHANGED outcome
        ELSE /\ Return(p, [load_stats[p] EXCEPT !.rows_inserted = inserted])
             /\ UNCHANGED upd

\* _upsert_sqlite: read the persisted keys; any exception (table missing,
\* store unreachable) is caught and the key set is taken to be empty.
ReadSql(p) ==
    /\ lpc[p] = "read_sql"
    /\ \E failed \in (IF Exists(table_name[p]) THEN BOOLEAN ELSE {FALSE}) :
          LET ids  == IF Exists(table_name[p]) /\ ~failed
                      THEN KeysOf(Table(table_name[p])) ELSE {}
              news == LET isNew(r) == r.numero_operacion \notin ids
                      IN  SelectSeq(ldf[p], isNew)
          IN  /\ existing_ids' = [existing_ids EXCEPT ![p] = ids]
              /\ fault' = [fault EXCEPT ![p] = IF failed THEN "lookup" ELSE "none"]
              /\ IF news # <<>>
                 THEN /\ lpc' = [lpc EXCEPT ![p] = "to_sql"]
                      /\ UNCHANGED <<upd, load_stats, outcome>>
                 ELSE AfterInsert(p, ids, 0)
    /\ UNCHANGED <<db_type, storeVars, now, engine, metadataDef, ldf, lcols,
                   fecha_carga, pre, prev, ncalls, callcap, addrVars>>

\* new_rows.to_sql(if_exists='append'): one transaction, creates the table
\* when it is missing; a unique index rejects the whole insert, and so does
\* a NOT NULL column the frame does not have.
ToSql(p) ==
    /\ lpc[p] = "to_sql"
    /\ LET name  == table_name[p]
           added == Table(name) \o Stamp(new_rows(p), fecha_carga[p])
       IN  \/ /\ Unique(name) => DistinctKeys(added)
              /\ NotNullColumns \subseteq lcols[p]
              /\ Written(name, added)
              /\ tableExists' = (tableExists \/ name = "operaciones")
              /\ AfterInsert(p, existing_ids[p], Len(new_rows(p)))
              /\ UNCHANGED fault
           \/ /\ Unique(name) /\ ~DistinctKeys(added)
              /\ Raise(p, "constraint")
              /\ UNCHANGED <<operaciones, staging, tableExists, upd>>
           \/ /\ ~(NotNullColumns \subseteq lcols[p])
              /\ Raise(p, "columns")
              /\ UNCHANGED <<operaciones, staging, tableExists, upd>>
           \/ /\ Raise(p, "store")
              /\ UNCHANGED <<operaciones, staging, tableExists, upd>>
    /\ UNCHANGED <<db_type, uniqueIdx, now, engine, metadataDef, ldf, lcols,
                   fecha_carga, existing_ids, pre, prev, ncalls, callcap, addrVars>>

\* One iteration of the update loop: its own connection, execute, commit.
\* The statement is UPDATE operaciones ..., whatever table_name is.
\* row[col] of a column the frame does not have raises KeyError.
Update(p) ==
    /\ lpc[p] = "update"
    /\ LET rows == update_rows(p)
       IN  \/ /\ TableColumns \subseteq lcols[p]
              /\ tableExists
              /\ operaciones' = UpdateWhere(operaciones, rows[upd[p]], fecha_carga[p])
              /\ UNCHANGED fault
              /\ IF upd[p] < Len(rows)
                 THEN /\ upd' = [upd EXCEPT ![p] = @ + 1]
                      /\ UNCHANGED <<lpc, load_stats, outcome>>
                 ELSE /\ Return(p, [load_stats[p] EXCEPT !.rows_updated = Len(rows)])
                      /\ UNCHANGED upd
           \/ /\ ~(TableColumns \subseteq lcols[p])
              /\ Raise(p, "columns")
              /\ UNCHANGED <<operaciones, upd>>
           \/ /\ TableColumns \subseteq lcols[p]
              /\ ~tableExists
              /\ Raise(p, "no_table")
              /\ UNCHANGED <<operaciones, upd>>
           \/ /\ Raise(p, "store")
              /\ UNCHANGED <<operaciones, upd>>
    /\ UNCHANGED <<db_type, staging, tableExists, uniqueIdx, now, engine,
                   metadataDef, ldf, lcols, fecha_carga, existing_ids, pre, prev,
                   ncalls, callcap, addrVars>>

\* MERGE rejects a source that matches one target row twice, and the unique
\* index rejects two inserts of one key.
MergeAccepts(name, src) ==
    \A i, j \in 1..Len(src) :
       (i # j /\ src[i].numero_operacion = src[j].numero_operacion)
          => (~Unique(name) /\ src[i].numero_operacion \notin KeysOf(Table(name)))

\* WHEN MATCHED THEN UPDATE ... WHEN NOT MATCHED THEN INSERT
Merged(tbl, src, t) ==
    LET notMatched(r) == r.numero_operacion \notin KeysOf(tbl)
    IN  UpdateAll(tbl, src, t) \o Stamp(SelectSeq(src, notMatched), t)

\* _upsert_sqlserver: temp table, MERGE into schema.table_name and DROP
\* inside one engine.begin() transaction; any failure rolls everything back.
Merge(p) ==
    /\ lpc[p] = "merge"
    /\ LET name == table_name[p]
       IN  \/ /\ Exists(name)
              /\ TableColumns \subseteq lcols[p]
              /\ MergeAccepts(name, Source(p))
              /\ Written(name, Merged(Table(name), Source(p), fecha_carga[p]))
              /\ Return(p, [load_stats[p] EXCEPT !.rows_inserted = Len(ldf[p])])
              /\ UNCHANGED fault
           \/ /\ ~Exists(name)
              /\ Raise(p, "no_table")
              /\ UNCHANGED <<operaciones, staging>>
           \/ /\ Exists(name)
              /\ ~(TableColumns \subseteq lcols[p])
              /\ Raise(p, "columns")
              /\ UNCHANGED <<operaciones, staging>>
           \/ /\ Exists(name)
              /\ ~MergeAccepts(name, Source(p))
              /\ Raise(p, "constraint")
              /\ UNCHANGED <<operaciones, staging>>
           \/ /\ Raise(p, "store")
              /\ UNCHANGED <<operaciones, staging>>
    /\ UNCHANGED <<db_type, tableExists, uniqueIdx, now, engine, metadataDef,
                   ldf, lcols, fecha_carga, existing_ids, upd, pre, prev, ncalls,
                   callcap, addrVars>>

NextLoad ==
    \/ \E p \in Clients, ok \in BOOLEAN :
          CreateTable(p, ok) /\ UNCHANGED <<valVars, dedupVars, runVars>>
    \/ \E p \in Clients, df \in Batches :
          UpsertData(p, df, "operaciones", NoConflictColumns)
             /\ UNCHANGED <<valVars, dedupVars, runVars>>
    \/ \E p \in Clients : UpsertConnectFails(p) /\ UNCHANGED <<valVars, dedupVars, runVars>>
    \/ \E p \in Clients : ReadSql(p) /\ UNCHANGED <<valVars, dedupVars, runVars>>
    \/ \E p \in Clients : ToSql(p) /\ UNCHANGED <<valVars, dedupVars, runVars>>
    \/ \E p \in Clients : Update(p) /\ UNCHANGED <<valVars, dedupVars, runVars>>
    \/ \E p \in Clients : Merge(p) /\ UNCHANGED <<valVars, dedupVars, runVars>>

SpecLoad == InitLoad /\ [][NextLoad]_vars

SpecRace == InitRace /\ [][NextLoad]_vars

\* One loader whose caller names the table and the conflict columns.
NextAddr ==
    \/ \E p \in Clients, ok \in BOOLEAN :
          CreateTable(p, ok) /\ UNCHANGED <<valVars, dedupVars, runVars>>
    \/ \E p \in Clients, df \in Batches, name \in TableNames, columns \in ConflictChoices :
          UpsertData(p, df, name, columns) /\ UNCHANGED <<valVars, dedupVars, runVars>>
    \/ \E p \in Clients : UpsertConnectFails(p) /\ UNCHANGED <<valVars, dedupVars, runVars>>
    \/ \E p \in Clients : ReadSql(p) /\ UNCHANGED <<valVars, dedupVars, runVars>>
    \/ \E p \in Clients : ToSql(p) /\ UNCHANGED <<valVars, dedupVars, runVars>>
    \/ \E p \in Clients : Update(p) /\ UNCHANGED <<valVars, dedupVars, runVars>>
    \/ \E p \in Clients : Merge(p) /\ UNCHANGED <<valVars, dedupVars, runVars>>

InitAddr ==
    /\ EmptyStore \/ LoadedStore
    /\ NewLoaders
    /\ callcap = [p \in Loaders |-> IF p = "L1" THEN MaxCalls ELSE 0]
    /\ NoValidator
    /\ NoDeduplicator
    /\ NoPipeline

SpecAddr == InitAddr /\ [][NextAddr]_vars

\* -------------------------------------------------------- validator actions
NoLoader ==
    /\ InitStore
    /\ callcap = [p \in Loaders |-> 0]

InitValid ==
    /\ NoLoader
    /\ NoDeduplicator
    /\ NoPipeline
    /\ vin \in RawFrames
    /\ vexp \in Checksums
    /\ vout = [state |-> "none", df |-> Frame(Required, <<>>)]
    /\ report = NewReport
    /\ handed = <<>>
    /\ current = 0

\* validated_df, report = validator.validate(df, expected_checksum):
\* self.report is a new object, which is the one returned.
ValidateFrame(df, expected) ==
    /\ LET res == Validate(df, expected)
       IN  /\ vout' = [state |-> res.state, df |-> res.df]
           /\ report' = res.report
           /\ IF res.state = "returned"
              THEN /\ handed' = Append(handed, [returned |-> res.report,
                                                 held |-> res.report])
                   /\ current' = Len(handed) + 1
              ELSE /\ handed' = handed
                   /\ current' = 0
    /\ vin' = df
    /\ vexp' = expected
    /\ UNCHANGED <<loaderVars, dedupVars, runVars>>

\* ... for the frame and the checksum of the caller, once
ValidateCall == vout.state = "none" /\ ValidateFrame(vin, vexp)

NextValid == ValidateCall

SpecValid == InitValid /\ [][NextValid]_vars

\* ---------------------------------------------------- deduplication actions
InitDedup ==
    /\ NoLoader
    /\ NoValidator
    /\ NoPipeline
    /\ dedup_stats = NewStats
    /\ din \in DedupFrames
    /\ dcall = NoCall
    /\ dout = NoResult
    /\ dhist = {}
    /\ dn = 0

\* What a call leaves for the next one to see: the calls that returned.
Remember ==
    IF dout.state = "returned"
    THEN dhist \cup {[args |-> dcall.args, df |-> dcall.df, out |-> dout]}
    ELSE dhist

Called(a) ==
    /\ dn < MaxCalls
    /\ dn' = dn + 1
    /\ dcall' = [args |-> a, df |-> din, stats |-> dedup_stats]
    /\ dhist' = Remember

\* deduped_df, stats = engine.deduplicate(df, strategy, key_columns)
DeduplicateCall(a) ==
    /\ Called(a)
    /\ LET res == DeduplicationEngineDeduplicate(dedup_stats, din, a.strategy,
                                                 a.key_columns)
       IN  /\ dout' = [state |-> res.state, df |-> res.df, stats |-> res.stats]
           /\ dedup_stats' = res.engine
           /\ din' = res.input
    /\ UNCHANGED <<loaderVars, valVars, runVars>>

\* adv_dedup.deduplicate_with_priority(df, key_columns, priority_column, order)
PriorityCall(a) ==
    /\ Called(a)
    /\ dout' = [state |-> "returned",
                df |-> DeduplicateWithPriority(din, a.key_columns, a.priority_column,
                                               a.priority_order),
                stats |-> NewStats]
    /\ UNCHANGED <<dedup_stats, din, loaderVars, valVars, runVars>>

\* adv_dedup.merge_duplicates(df, key_columns, merge_strategy)
MergeCall(a) ==
    /\ Called(a)
    /\ dout' = [state |-> "returned",
                df |-> MergeDuplicates(din, a.key_columns, a.merge_strategy),
                stats |-> NewStats]
    /\ UNCHANGED <<dedup_stats, din, loaderVars, valVars, runVars>>

NextDedup ==
    \/ \E a \in DeduplicateArgs : DeduplicateCall(a)
    \/ \E a \in PriorityArgs : PriorityCall(a)
    \/ \E a \in MergeArgs : MergeCall(a)

SpecDedup == InitDedup /\ [][NextDedup]_vars

\* Raw records with their own content_hash: two operations, valid and
\* non-positive amounts.
CleanRows ==
    {CsvRow("OP-00000001", 100, <<"h1">>), CsvRow("OP-00000002", 100, <<"h2">>),
     CsvRow("OP-00000002", InvalidMonto, <<"h3">>)}

CleanFrames == {Frame(TableColumns, rows) : rows \in SeqsUpTo(CleanRows, MaxRecords)}

InitClean ==
    /\ NoLoader
    /\ NoPipeline
    /\ NoDeduplicator
    /\ vin \in CleanFrames
    /\ vexp = NoChecksum
    /\ vout = [state |-> "none", df |-> Frame(Required, <<>>)]
    /\ report = NewReport
    /\ handed = <<>>
    /\ current = 0

\* engine.deduplicate(validated_df, strategy='hash') on what validate returned
DeduplicateValidated ==
    /\ vout.state = "returned"
    /\ dn = 0
    /\ dn' = 1
    /\ dcall' = [args |-> [NoArgs EXCEPT !.op = "deduplicate", !.strategy = "hash"],
                 df |-> vout.df, stats |-> dedup_stats]
    /\ dhist' = dhist
    /\ LET res == DeduplicationEngineDeduplicate(dedup_stats, vout.df, "hash",
                                                 NoKeyColumns)
       IN  /\ dout' = [state |-> res.state, df |-> res.df, stats |-> res.stats]
           /\ dedup_stats' = res.engine
           /\ din' = res.input
    /\ UNCHANGED <<loaderVars, valVars, runVars>>

NextClean ==
    \/ ValidateCall
    \/ DeduplicateValidated

SpecClean == InitClean /\ [][NextClean]_vars

\* ------------------------------------------------------------ hash actions
HashArgs == {[NoArgs EXCEPT !.op = "deduplicate", !.strategy = "hash"]}

\* Records without content_hash: two that agree on the four hashed fields
\* and differ in the description, and one of another operation.
HashRows ==
    {WithoutHash(Row("OP-00000001", 100)),
     [WithoutHash(Row("OP-00000001", 100)) EXCEPT !.descripcion = 9],
     WithoutHash(Row("OP-00000002", 100))}

\* Frames with every hashed column, and frames without cuenta_origen.
HashFrames ==
    {Frame(cols, rows) : cols \in {Required, Required \ {"cuenta_origen"}},
                         rows \in SeqsUpTo(HashRows, MaxRecords)}

\* One set of records, handed to the validator and, as a copy, to the engine.
InitHash ==
    /\ NoLoader
    /\ NoPipeline
    /\ vin \in HashFrames
    /\ vexp = NoChecksum
    /\ vout = [state |-> "none", df |-> Frame(Required, <<>>)]
    /\ report = NewReport
    /\ handed = <<>>
    /\ current = 0
    /\ dedup_stats = NewStats
    /\ din = vin
    /\ dcall = NoCall
    /\ dout = NoResult
    /\ dhist = {}
    /\ dn = 0

\* validated_df = validator.generate_content_hash(validated_df)
GenerateContentHashOn(df) ==
    /\ LET res == ValidatorGenerateContentHash(df)
       IN  /\ vout' = res
           /\ vin' = res.df
    /\ UNCHANGED <<vexp, report, handed, current, loaderVars, dedupVars, runVars>>

\* ... for the frame of the caller, once
GenerateContentHashCall == vout.state = "none" /\ GenerateContentHashOn(vin)

NextHash ==
    \/ GenerateContentHashCall
    \/ \E a \in HashArgs : DeduplicateCall(a)

SpecHash == InitHash /\ [][NextHash]_vars

\* ------------------------------------------------- one validator, reused
InitReport ==
    /\ NoLoader
    /\ NoDeduplicator
    /\ NoPipeline
    /\ NoValidator

\* df = validator.validate_duplicates(df) on the frame the caller holds
ValidateDuplicatesCall ==
    /\ Len(report.warnings) < MaxCalls
    /\ LET res == ValidateDuplicates(vin, report)
       IN  /\ vin' = res.df
           /\ vout' = [state |-> "returned", df |-> res.df]
           /\ report' = res.report
           /\ handed' = Held(res.report)
    /\ UNCHANGED <<vexp, current, loaderVars, dedupVars, runVars>>

\* The calls a caller makes on one DataValidator, in any order.
NextReport ==
    \/ \E df \in ReportFrames : Len(handed) < MaxCalls /\ ValidateFrame(df, NoChecksum)
    \/ ValidateDuplicatesCall
    \/ GenerateContentHashOn(vin)

SpecReport == InitReport /\ [][NextReport]_vars

\* --------------------------------------------------------- pipeline actions
PL == "L1"      \* the SQLLoader object _load constructs

\* An ETLPipeline object before its first run, one input file, and a fresh
\* store; the runs after the first find the operations the earlier ones loaded.
InitRun ==
    /\ EmptyStore
    /\ NewLoaders
    /\ callcap = [p \in Loaders |-> IF p = PL THEN MaxRuns ELSE 0]
    /\ NoValidator
    /\ NoDeduplicator
    /\ rpc = "idle"
    /\ csv \in CsvFiles
    /\ frame = Frame({}, <<>>)
    /\ metrics = NewMetrics(0)
    /\ persisted = [i \in 1..MaxRuns |-> <<>>]
    /\ log = <<>>
    /\ result = "none"
    /\ nruns = 0
    /\ clock = 1

\* PipelineMetrics.save: write metrics_<pipeline_id>.json
Persist(m) == [persisted EXCEPT ![m.pipeline_id] = <<m>>]

\* The except clause as it would be if it built a new metrics object for
\* the failure instead of marking self.metrics.
FailWithNewMetrics(m, lg, msg) ==
    /\ metrics' = [NewMetrics(m.pipeline_id) EXCEPT
                     !.status = "failed", !.error_message = msg, !.finalized = TRUE]
    /\ log' = lg \o <<"pipeline_failed">>
    /\ rpc' = "save_failed"

\* except Exception as e: end_time, status, error_message, finalize, log,
\* and on to _save_metrics.  m and lg are the metrics and the log at the
\* moment the exception arrives.
Fail(m, lg, msg) ==
    /\ metrics' = [m EXCEPT !.status = "failed", !.error_message = msg,
                            !.finalized = TRUE]
    /\ log' = lg \o <<"pipeline_failed">>
    /\ rpc' = "save_failed"

\* run(): pipeline_id from the clock (one-second resolution), new metrics.
\* The loader of the run before, a local of _load, no longer exists.
Run ==
    /\ rpc = "idle"
    /\ nruns < MaxRuns
    /\ \E t \in (IF nruns = 0 THEN {clock} ELSE {clock, clock + 1}) :
          /\ clock' = t
          /\ metrics' = NewMetrics(t)
    /\ log' = <<"pipeline_started">>
    /\ rpc' = "extract"
    /\ result' = "none"
    /\ nruns' = nruns + 1
    /\ frame' = Frame({}, <<>>)
    /\ engine' = [p \in Loaders |-> "none"]
    /\ metadataDef' = [p \in Loaders |-> FALSE]
    /\ ldf' = [p \in Loaders |-> <<>>]
    /\ lcols' = [p \in Loaders |-> TableColumns]
    /\ fecha_carga' = [p \in Loaders |-> 0]
    /\ existing_ids' = [p \in Loaders |-> {}]
    /\ upd' = [p \in Loaders |-> 0]
    /\ load_stats' = [p \in Loaders |-> NoStats]
    /\ outcome' = [p \in Loaders |-> "none"]
    /\ pre' = [p \in Loaders |-> <<>>]
    /\ prev' = [p \in Loaders |-> [df |-> <<>>, outcome |-> "none"]]
    /\ fault' = [p \in Loaders |-> "none"]
    /\ UNCHANGED <<db_type, storeVars, now, lpc, ncalls, callcap, addrVars>>
    /\ UNCHANGED <<csv, persisted, valVars, dedupVars>>

\* _extract as it would be if run handed its frame straight to _deduplicate.
ExtractThenDeduplicate ==
    /\ rpc = "extract"
    /\ LET lg == log \o <<"extraction_started">>
       IN  \/ /\ "fecha_operacion" \in csv.columns
              /\ frame' = csv
              /\ metrics' = [metrics EXCEPT !.input_rows = Len(csv.rows)]
              /\ log' = lg \o <<"extraction_completed">>
              /\ rpc' = "deduplicate"
           \/ /\ Fail(metrics, lg, "read_csv failed")
              /\ UNCHANGED frame
    /\ UNCHANGED <<csv, persisted, result, nruns, clock, loaderVars, valVars, dedupVars>>

\* _extract: read_csv raises on a file it cannot parse, or on an I/O error.
Extract ==
    /\ rpc = "extract"
    /\ LET lg == log \o <<"extraction_started">>
       IN  \/ /\ "fecha_operacion" \in csv.columns
              /\ frame' = csv
              /\ metrics' = [metrics EXCEPT !.input_rows = Len(csv.rows)]
              /\ log' = lg \o <<"extraction_completed">>
              /\ rpc' = "validate"
           \/ /\ Fail(metrics, lg, "read_csv failed")
              /\ UNCHANGED frame
    /\ UNCHANGED <<csv, persisted, result, nruns, clock, loaderVars, valVars, dedupVars>>

\* _validate: validate catches SchemaErrors only; any other exception of
\* the schema library leaves the stage.
ValidateStage ==
    /\ rpc = "validate"
    /\ LET lg  == log \o <<"validation_started">>
           res == Validate(frame, NoChecksum)
       IN  \/ /\ res.state = "returned"
              /\ frame' = res.df
              /\ metrics' = [metrics EXCEPT
                               !.validation_passed = res.report.valid_rows,
                               !.validation_failed = res.report.invalid_rows,
                               !.validation_errors = FirstErrors(res.report.errors)]
              /\ log' = lg \o <<"validation_completed">>
              /\ rpc' = "deduplicate"
           \/ /\ Fail(metrics, lg, "validator error")
              /\ UNCHANGED frame
    /\ UNCHANGED <<csv, persisted, result, nruns, clock, loaderVars, valVars, dedupVars>>

\* _deduplicate: the counts are written and the completion is logged before
\* the deduplicated file is written; mkdir or to_csv may raise.
Deduplicate ==
    /\ rpc = "deduplicate"
    /\ LET res == DeduplicateByHash(frame)
           m   == [metrics EXCEPT
                     !.duplicates_found = res.stats.duplicates_found,
                     !.duplicates_removed = res.stats.duplicates_removed]
           lg  == log \o <<"deduplication_started", "deduplication_completed">>
       IN  \/ /\ frame' = res.df
              /\ metrics' = m
              /\ log' = lg
              /\ rpc' = "load"
           \/ /\ Fail(m, lg, "cannot write deduped file")
              /\ UNCHANGED frame
    /\ UNCHANGED <<csv, persisted, result, nruns, clock, loaderVars, valVars, dedupVars>>

\* _load: loader = SQLLoader(self.db_config); loader.connect()
LoadConnect ==
    /\ rpc = "load"
    /\ lpc[PL] = "idle"
    /\ metadataDef' = [metadataDef EXCEPT ![PL] = FALSE]
    /\ load_stats' = [load_stats EXCEPT ![PL] = NoStats]
    /\ LET lg == log \o <<"loading_started">>
       IN  \/ /\ engine' = [engine EXCEPT ![PL] = "open"]
              /\ log' = lg
              /\ rpc' = "create_table"
              /\ UNCHANGED metrics
           \/ /\ engine' = [engine EXCEPT ![PL] = "none"]
              /\ Fail(metrics, lg, "Failed to connect to database")
    /\ UNCHANGED <<db_type, storeVars, now, lpc, ldf, lcols, fecha_carga,
                   existing_ids, upd, outcome, pre, prev, ncalls, fault, callcap,
                   addrVars>>
    /\ UNCHANGED <<csv, frame, persisted, result, nruns, clock, valVars, dedupVars>>

\* _load: loader.create_table('operaciones')
LoadCreateTable ==
    /\ rpc = "create_table"
    /\ \E ok \in BOOLEAN :
          /\ CreateTable(PL, ok)
          /\ IF ok
             THEN rpc' = "upsert" /\ UNCHANGED <<metrics, log>>
             ELSE Fail(metrics, log, "create_all failed")
    /\ UNCHANGED <<csv, frame, persisted, result, nruns, clock, valVars, dedupVars>>

\* _load: stats = loader.upsert_data(df, 'operaciones'), the call
LoadUpsert ==
    /\ rpc = "upsert"
    /\ UpsertData(PL, frame, "operaciones", NoConflictColumns)
    /\ rpc' = "upserting"
    /\ UNCHANGED <<csv, frame, metrics, persisted, log, result, nruns, clock, valVars, dedupVars>>

\* ... and the steps of that call
LoadReadSql == rpc = "upserting" /\ ReadSql(PL) /\ UNCHANGED <<valVars, dedupVars, runVars>>

LoadToSql == rpc = "upserting" /\ ToSql(PL) /\ UNCHANGED <<valVars, dedupVars, runVars>>

LoadUpdate == rpc = "upserting" /\ Update(PL) /\ UNCHANGED <<valVars, dedupVars, runVars>>

LoadMerge == rpc = "upserting" /\ Merge(PL) /\ UNCHANGED <<valVars, dedupVars, runVars>>

\* _load as it would be if it did not copy rows_updated into the metrics.
LoadDoneWithoutUpdated ==
    /\ rpc = "upserting"
    /\ lpc[PL] = "idle"
    /\ outcome[PL] = "returned"
    /\ metrics' = [metrics EXCEPT
                     !.rows_loaded = load_stats[PL].rows_inserted,
                     !.load_failed = load_stats[PL].rows_failed]
    /\ log' = log \o <<"loading_completed">>
    /\ engine' = [engine EXCEPT ![PL] = "disposed"]
    /\ rpc' = "finish"
    /\ UNCHANGED <<db_type, storeVars, now, lpc, metadataDef, ldf, lcols,
                   fecha_carga, existing_ids, upd, load_stats, outcome, pre,
                   prev, ncalls, fault, callcap, addrVars>>
    /\ UNCHANGED <<csv, frame, persisted, result, nruns, clock, valVars, dedupVars>>

\* _load after upsert_data returned: copy the statistics, loader.close()
LoadDone ==
    /\ rpc = "upserting"
    /\ lpc[PL] = "idle"
    /\ outcome[PL] = "returned"
    /\ metrics' = [metrics EXCEPT
                     !.rows_loaded = load_stats[PL].rows_inserted,
                     !.rows_updated = load_stats[PL].rows_updated,
                     !.load_failed = load_stats[PL].rows_failed]
    /\ log' = log \o <<"loading_completed">>
    /\ engine' = [engine EXCEPT ![PL] = "disposed"]
    /\ rpc' = "finish"
    /\ UNCHANGED <<db_type, storeVars, now, lpc, metadataDef, ldf, lcols,
                   fecha_carga, existing_ids, upd, load_stats, outcome, pre,
                   prev, ncalls, fault, callcap, addrVars>>
    /\ UNCHANGED <<csv, frame, persisted, result, nruns, clock, valVars, dedupVars>>

\* upsert_data raised: the exception leaves _load (close is not reached)
LoadRaised ==
    /\ rpc = "upserting"
    /\ lpc[PL] = "idle"
    /\ outcome[PL] = "raised"
    /\ Fail(metrics, log, "Failed to load data")
    /\ UNCHANGED <<csv, frame, persisted, result, nruns, clock, loaderVars, valVars, dedupVars>>

\* run(): end_time, status = "success", finalize, log
Finish ==
    /\ rpc = "finish"
    /\ metrics' = [metrics EXCEPT !.status = "success", !.finalized = TRUE]
    /\ log' = log \o <<"pipeline_completed">>
    /\ rpc' = "save"
    /\ UNCHANGED <<csv, frame, persisted, result, nruns, clock, loaderVars, valVars, dedupVars>>

\* self._save_metrics() inside the try block: when save raises, the same
\* except clause handles it.
SaveMetrics ==
    /\ rpc = "save"
    /\ \/ /\ persisted' = Persist(metrics)
          /\ log' = log \o <<"metrics_saved">>
          /\ rpc' = "idle"
          /\ result' = "returned"
          /\ UNCHANGED metrics
       \/ /\ Fail(metrics, log, "cannot write metrics file")
          /\ UNCHANGED <<persisted, result>>
    /\ UNCHANGED <<csv, frame, nruns, clock, loaderVars, valVars, dedupVars>>

\* self._save_metrics() inside the except clause, then raise: when save
\* raises, its exception leaves run instead.
SaveFailedMetrics ==
    /\ rpc = "save_failed"
    /\ \/ /\ persisted' = Persist(metrics)
          /\ log' = log \o <<"metrics_saved">>
       \/ UNCHANGED <<persisted, log>>
    /\ rpc' = "idle"
    /\ result' = "raised"
    /\ UNCHANGED <<csv, frame, metrics, nruns, clock, loaderVars, valVars, dedupVars>>

NextRun ==
    \/ Run
    \/ Extract
    \/ ValidateStage
    \/ Deduplicate
    \/ LoadConnect
    \/ LoadCreateTable
    \/ LoadUpsert
    \/ LoadReadSql
    \/ LoadToSql
    \/ LoadUpdate
    \/ LoadMerge
    \/ LoadDone
    \/ LoadRaised
    \/ Finish
    \/ SaveMetrics
    \/ SaveFailedMetrics

SpecRun == InitRun /\ [][NextRun]_vars

\* ---------------------------------------------------------- pipeline claims
Logged(e) == \E i \in 1..Len(log) : log[i] = e

IsStageEvent(e) == \E i \in 1..Len(StageEvents) : StageEvents[i] = e

\* The stage events the run in progress has logged, in order.
StagesLogged == SelectSeq(log, IsStageEvent)

IsPrefix(s, t) == Len(s) <= Len(t) /\ \A i \in 1..Len(s) : s[i] = t[i]

RunEnded == rpc = "idle" /\ nruns > 0

\* A stage (not the final save of a successful run) raised.
StageFailed == Logged("pipeline_failed") /\ ~Logged("pipeline_completed")

\* The last thing the run logged is that its metrics file was written.
MetricsSaved == log # <<>> /\ log[Len(log)] = "metrics_saved"

\* The counts of record m are the ones the completed stages computed.
CountsKept(m) ==
    LET v == Validate(csv, NoChecksum)
        d == DeduplicateByHash(v.df)
    IN  /\ Logged("extraction_completed") => m.input_rows = Len(csv.rows)
        /\ Logged("validation_completed") =>
              /\ m.validation_passed = v.report.valid_rows
              /\ m.validation_failed = v.report.invalid_rows
        /\ Logged("deduplication_completed") =>
              /\ m.duplicates_found = d.stats.duplicates_found
              /\ m.duplicates_removed = d.stats.duplicates_removed

FailedRecord(m) ==
    /\ m.status = "failed"
    /\ m.error_message # ""
    /\ m.finalized
    /\ CountsKept(m)

StagesAt(pc) ==
    CASE pc = "extract" -> 0
      [] pc = "validate" -> 2
      [] pc = "deduplicate" -> 4
      [] pc = "load" -> 6
      [] pc \in {"create_table", "upsert", "upserting"} -> 7
      [] pc \in {"finish", "save"} -> 8

\* C7: the stages run one after the other in the order extract, validate,
\* deduplicate, load; a stage starts only when the one before it has
\* completed; no stage event follows a failure; status "success" is reached
\* only after the load stage has completed.
StageOrdering ==
    /\ IsPrefix(StagesLogged, StageEvents)
    /\ rpc \notin {"idle", "save_failed"} => Len(StagesLogged) = StagesAt(rpc)
    /\ \A i, j \in 1..Len(log) :
          (i < j /\ log[i] = "pipeline_failed") => ~IsStageEvent(log[j])
    /\ metrics.status = "success" => Logged("loading_completed")

\* C7 witness: a run went through all four stages and returned.
RunSucceeded ==
    /\ RunEnded /\ result = "returned"
    /\ metrics.status = "success"
    /\ StagesLogged = StageEvents
    /\ metrics.rows_loaded > 0

\* C8: within one run, once status is "success" or "failed" it no longer
\* changes, and no stage is logged again.
TerminalAbsorbing ==
    [][(nruns' = nruns /\ metrics.status \in {"success", "failed"})
          => /\ metrics'.status = metrics.status
             /\ StagesLogged' = StagesLogged]_vars

\* The counts of record m add up from stage to stage.
Conserved(m) ==
    /\ m.input_rows = m.validation_passed + m.validation_failed
    /\ m.validation_passed = m.duplicates_removed + m.rows_loaded + m.rows_updated
    /\ m.load_failed = 0

\* C27: the metrics of every run that ends with status "success", as they
\* are persisted, satisfy input_rows = validation_passed + validation_failed,
\* validation_passed = duplicates_removed + rows_loaded + rows_updated and
\* load_failed = 0.
CountsConserved ==
    /\ metrics.status = "success" => Conserved(metrics)
    /\ \A id \in DOMAIN persisted :
          \A j \in 1..Len(persisted[id]) :
              persisted[id][j].status = "success" => Conserved(persisted[id][j])

\* C27 witness: a successful run whose persisted metrics count two input
\* records, one removed as a duplicate and one that updated a stored row.
ConservedWithUpdate ==
    /\ RunEnded /\ result = "returned"
    /\ persisted[metrics.pipeline_id] = <<metrics>>
    /\ metrics.status = "success"
    /\ metrics.input_rows = 2
    /\ metrics.duplicates_removed = 1
    /\ metrics.rows_updated = 1

\* C28: every run has a pipeline_id of its own, and the metrics record a run
\* has persisted is never overwritten by another run, so that k runs leave
\* k records.
OneRecordPerRun ==
    [][/\ (nruns > 0 /\ nruns' = nruns + 1) => metrics'.pipeline_id # metrics.pipeline_id
       /\ \A id \in DOMAIN persisted :
             persisted[id] # <<>> => persisted'[id] = persisted[id]]_vars

\* C29: a run whose load stage opened a store connection has closed it by
\* the time its status is "success" or "failed", also when create_table or
\* upsert_data raised.
ConnectionReleased ==
    metrics.status \in {"success", "failed"} => engine[PL] # "open"

\* C22: when upsert_data fails it reports rows_failed = len(df), and the run
\* whose load stage failed that way persists load_failed = len(df), the
\* number of records handed to the loader.
LoadFailureReported ==
    (RunEnded /\ outcome[PL] = "raised" /\ MetricsSaved)
        => /\ load_stats[PL].rows_failed = Len(ldf[PL])
           /\ persisted[metrics.pipeline_id] = <<metrics>>
           /\ metrics.load_failed = Len(ldf[PL])

\* --------------------------------------------------------- validator claims
\* A row of frame df violates no field rule.
RowSatisfiesRules(df, r) ==
    /\ Required \subseteq df.columns
    /\ KeyWellFormed(r.numero_operacion)
    /\ MontoPositive(r.monto)
    /\ MontoWithinLimit(r.monto)

\* C9: every row of the frame validate returns satisfies all field rules.
ValidatorSound ==
    vout.state = "returned"
        => \A i \in 1..Len(vout.df.rows) : RowSatisfiesRules(vout.df, vout.df.rows[i])

\* C10: for a frame that lacks a required column validate ends with an
\* error; it returns no (valid rows, report) result.
MissingColumnFatal ==
    (vout.state # "none" /\ ~(Required \subseteq vin.columns)) => vout.state = "raised"

\* The rows of a sequence that violate no field rule, in order.
RuleAbiding(df) ==
    LET ok(r) == RowSatisfiesRules(df, r)
    IN  SelectSeq(df.rows, ok)

Recorded(i, column, check) ==
    \E n \in 1..Len(report.errors) :
        report.errors[n] = [row |-> i - 1, column |-> column, error |-> check]

\* C11: validation isolates rows: the rows of the input that violate no
\* field rule are all in the frame validate returns, whatever the other rows
\* of the batch hold, and every violation of every row is in the report.
RowsIsolated ==
    vout.state = "returned"
        => /\ RuleAbiding(vout.df) = RuleAbiding(vin)
           /\ \A i \in 1..Len(vin.rows) :
                 /\ ~KeyWellFormed(vin.rows[i].numero_operacion)
                       => Recorded(i, "numero_operacion", "str_matches")
                 /\ ("monto" \in vin.columns /\ ~MontoPositive(vin.rows[i].monto))
                       => Recorded(i, "monto", "greater_than(0)")
                 /\ ("monto" \in vin.columns /\ ~MontoWithinLimit(vin.rows[i].monto))
                       => Recorded(i, "monto", "less_than_or_equal_to(1000000)")

\* C12: for every validate call that returns, valid_rows + invalid_rows =
\* total_rows, total_rows is the number of input rows and valid_rows the
\* number of rows of the returned frame.
PartitionLaw ==
    vout.state = "returned"
        => /\ report.valid_rows + report.invalid_rows = report.total_rows
           /\ report.total_rows = Len(vin.rows)
           /\ report.valid_rows = Len(vout.df.rows)

\* C12 witness: validate returned some rows of a batch and excluded others,
\* one of them for two violations.
PartlyValid ==
    /\ vout.state = "returned"
    /\ report.valid_rows > 0
    /\ report.invalid_rows > 0
    /\ Len(report.errors) > report.invalid_rows

\* C21: the report validate returns lists at most 100 errors, the first ones
\* recorded; the rows of the violations beyond the hundredth still count
\* toward invalid_rows and are left out of the returned frame.
ErrorListCapped ==
    vout.state = "returned"
        => /\ Len(report.errors) <= ErrorCap
           /\ report.errors = FirstErrors(Errors(FailureCases(vin)))
           /\ report.invalid_rows = Cardinality(InvalidIndices(FailureCases(vin)))
           /\ Len(vout.df.rows) = Len(vin.rows) - report.invalid_rows

\* C26: a report validate has returned is not changed by any later call on
\* the same DataValidator (validate, validate_duplicates,
\* generate_content_hash); every validate call returns a report of its own.
ReportImmutable ==
    \A i \in 1..Len(handed) : handed[i].held = handed[i].returned

\* The batch of Scenario A: exactly one record with a non-positive amount,
\* exactly two records that are copies of each other, and no other record
\* sharing an operation number or a content_hash.
ScenarioA(rows) ==
    LET n == Len(rows)
        invalid == {i \in 1..n : ~MontoPositive(rows[i].monto)}
        pairs == {p \in (1..n) \X (1..n) : p[1] < p[2] /\ rows[p[1]] = rows[p[2]]}
        alike == {p \in (1..n) \X (1..n) :
                    /\ p[1] < p[2]
                    /\ \/ rows[p[1]].numero_operacion = rows[p[2]].numero_operacion
                       \/ rows[p[1]].content_hash = rows[p[2]].content_hash}
    IN  /\ Cardinality(invalid) = 1
        /\ Cardinality(pairs) = 1
        /\ alike = pairs
        /\ \A p \in pairs : p[1] \notin invalid

\* The rows of a sequence with a positive amount, in order.
PositiveRows(rows) ==
    LET pos(r) == MontoPositive(r.monto)
    IN  SelectSeq(rows, pos)

\* C13: for the batch of Scenario A validate returns every record but the
\* invalid one, both copies included, with exactly one error, at the invalid
\* row and column monto; hash deduplication of that output removes exactly
\* one record.
ScenarioAOutcome ==
    (dout.state = "returned" /\ ScenarioA(vin.rows))
        => /\ vout.df.rows = PositiveRows(vin.rows)
           /\ Len(report.errors) = 1
           /\ \A i \in 1..Len(vin.rows) :
                 ~MontoPositive(vin.rows[i].monto)
                    => (report.errors[1].row = i - 1 /\ report.errors[1].column = "monto")
           /\ dout.stats.duplicates_removed = 1
           /\ Len(dout.df.rows) = Len(vin.rows) - 2

\* ----------------------------------------------------- deduplication claims
Returned(op) == dout.state = "returned" /\ dcall.args.op = op

\* Rows a and b of frame df are duplicates of each other for the call args.
SameGroup(df, args, a, b) ==
    IF args.strategy = "hash"
    THEN IF "content_hash" \in df.columns
         THEN a.content_hash = b.content_hash
         ELSE \A n \in 1..Len(HashColumns) : a[HashColumns[n]] = b[HashColumns[n]]
    ELSE LET keys == IF args.key_columns = NoKeyColumns THEN DefaultKeyColumns
                     ELSE args.key_columns
         IN  \A n \in 1..Len(keys) : a[keys[n]] = b[keys[n]]

\* Positions of the rows of df that have no earlier duplicate, in order.
Earliest(df, args) ==
    LET first(i) == ~\E j \in 1..(i - 1) : SameGroup(df, args, df.rows[j], df.rows[i])
    IN  SelectSeq(Idx(Len(df.rows)), first)

\* Record x is record y on the columns cols (those the records carry).
SameOn(cols, x, y) == \A c \in cols \cap DOMAIN x : x[c] = y[c]

\* C14: deduplicate with strategy 'hash' or 'key' returns exactly the
\* records that are the earliest member of their duplicate group, in input
\* order.
KeepFirst ==
    Returned("deduplicate")
        => LET e == Earliest(dcall.df, dcall.args)
           IN  /\ Len(dout.df.rows) = Len(e)
               /\ \A j \in 1..Len(e) :
                     SameOn(dcall.df.columns, dout.df.rows[j], dcall.df.rows[e[j]])

\* C14 witness: a key deduplication removed a later record that lay between
\* two records it kept, or before them.
KeyDuplicateRemoved ==
    /\ Returned("deduplicate")
    /\ dcall.args.strategy = "key"
    /\ Len(dout.df.rows) = 2
    /\ Len(dcall.df.rows) = 3
    /\ dcall.df.rows[1].fecha_operacion # dcall.df.rows[2].fecha_operacion
    /\ dcall.df.rows[1].numero_operacion = dcall.df.rows[2].numero_operacion

\* C15: the statistics deduplicate returns satisfy duplicates_removed =
\* total_input - final_count, final_count <= total_input, total_input = the
\* number of input records, final_count = the number of returned records
\* and duplicates_removed = duplicates_found, on a reused engine too.
CountLaw ==
    Returned("deduplicate")
        => /\ dout.stats.duplicates_removed
                 = dout.stats.total_input - dout.stats.final_count
           /\ dout.stats.final_count <= dout.stats.total_input
           /\ dout.stats.total_input = Len(dcall.df.rows)
           /\ dout.stats.final_count = Len(dout.df.rows)
           /\ dout.stats.duplicates_removed = dout.stats.duplicates_found

\* C15 witness: a hash deduplication found one duplicate on an engine that
\* holds the two duplicates an earlier call found.
ReusedEngineCounts ==
    /\ Returned("deduplicate")
    /\ dcall.args.strategy = "hash"
    /\ dn = 2
    /\ dcall.stats.duplicates_found = 2
    /\ dout.stats.duplicates_found = 1

KeysIn(rows, cols) == {[n \in 1..Len(cols) |-> rows[i][cols[n]]] : i \in 1..Len(rows)}

\* C16: deduplicate_with_priority returns one record per value of the key
\* columns, and the record it keeps for a key is a record of the input with
\* the greatest priority of its group for 'desc', the smallest for 'asc'.
PriorityKept ==
    Returned("deduplicate_with_priority")
        => LET keys == dcall.args.key_columns
               prio == dcall.args.priority_column
               out == dout.df.rows
               inp == dcall.df.rows
           IN  /\ KeysIn(out, keys) = KeysIn(inp, keys)
               /\ Cardinality(KeysIn(out, keys)) = Len(out)
               /\ \A j \in 1..Len(out) :
                     /\ \E i \in 1..Len(inp) : inp[i] = out[j]
                     /\ \A i \in 1..Len(inp) :
                           SameOn(ColumnsOf(keys), inp[i], out[j])
                              => IF dcall.args.priority_order = "desc"
                                 THEN inp[i][prio] <= out[j][prio]
                                 ELSE out[j][prio] <= inp[i][prio]

\* C16 witness: three records of one operation with dates t1 < t2 < t3 in
\* an order other than by date, order desc: the t3 record alone is returned.
ScenarioC ==
    /\ Returned("deduplicate_with_priority")
    /\ dcall.args.priority_column = "fecha_operacion"
    /\ dcall.args.priority_order = "desc"
    /\ Len(dcall.df.rows) = 3
    /\ dcall.df.rows[1].fecha_operacion = 2
    /\ dcall.df.rows[2].fecha_operacion = 3
    /\ dcall.df.rows[3].fecha_operacion = 1
    /\ dout.df.rows = <<dcall.df.rows[2]>>

\* The reducers as the specification states them: 'first' and 'last' are the
\* values of the earliest and the latest member of the group.
StatedReduce(how, c, vals) ==
    CASE how = "first" -> vals[1]
      [] how = "last" -> vals[Len(vals)]
      [] OTHER -> Reduce(how, c, vals)

\* C17: merge_duplicates returns one record per value of the key columns,
\* and every other column of it is the column's reducer applied to the
\* members of the group in input order, 'first' for a column the strategy
\* does not name.
MergeReduces ==
    Returned("merge_duplicates")
        => LET keys == dcall.args.key_columns
               out == dout.df.rows
               inp == dcall.df.rows
           IN  /\ KeysIn(out, keys) = KeysIn(inp, keys)
               /\ Cardinality(KeysIn(out, keys)) = Len(out)
               /\ \A j \in 1..Len(out) :
                     LET member(r) == SameOn(ColumnsOf(keys), r, out[j])
                         group == SelectSeq(inp, member)
                     IN  \A c \in dcall.df.columns \ ColumnsOf(keys) :
                            c \in DOMAIN out[j]
                               => out[j][c]
                                     = StatedReduce(AggOf(dcall.args.merge_strategy, keys, c),
                                                    c, [i \in 1..Len(group) |-> group[i][c]])

\* The calls that have returned, the last one included.
ReturnedCalls ==
    dhist \cup (IF dout.state = "returned"
                THEN {[args |-> dcall.args, df |-> dcall.df, out |-> dout]}
                ELSE {})

UnknownStrategyNoEffect ==
    (dout.state = "raised" /\ dcall.args.strategy \notin {"hash", "key"})
        => /\ din = dcall.df
           /\ GetDedupReport(dedup_stats) = GetDedupReport(dcall.stats)

\* C30: after deduplicate (any strategy), deduplicate_with_priority or
\* merge_duplicates has returned, the caller's DataFrame has the records, the
\* order and the columns it had before the call.
InputUntouched ==
    dout.state = "returned" => din = dcall.df

\* ------------------------------------------------------------- hash claims
SameHashedFields(a, b) ==
    \A j \in 1..Len(HashColumns) : a[HashColumns[j]] = b[HashColumns[j]]

HashOfFourFields(rows) ==
    \A i, j \in 1..Len(rows) :
        SameHashedFields(rows[i], rows[j]) => rows[i].content_hash = rows[j].content_hash

\* C20: the content_hash either implementation computes depends only on the
\* four hashed fields: records that agree on them get the same content_hash
\* whatever their other fields hold, and the two implementations give the
\* same content_hash for the same record.
HashDeterminism ==
    /\ vout.state = "returned" => HashOfFourFields(vout.df.rows)
    /\ dout.state = "returned" => HashOfFourFields(din.rows)
    /\ (vout.state = "returned" /\ dout.state = "returned")
          => \A i \in 1..Len(din.rows) :
                 vout.df.rows[i].content_hash = din.rows[i].content_hash

\* C20 witness: both implementations have hashed a frame in which two
\* records agree on the four hashed fields and differ in the description.
HashedAlike ==
    /\ vout.state = "returned"
    /\ dout.state = "returned"
    /\ \E i, j \in 1..Len(din.rows) :
          /\ SameHashedFields(din.rows[i], din.rows[j])
          /\ din.rows[i].descripcion # din.rows[j].descripcion
          /\ din.rows[i].content_hash # NoHash

\* ------------------------------------------------------------ loader claims
Done(p) == lpc[p] = "idle" /\ outcome[p] # "none"

Ended(p) == lpc[p] = "idle" /\ ncalls[p] > 0

\* Number of stored rows carrying business key k.
RowsWithKey(k) == Cardinality({i \in 1..Len(operaciones) : operaciones[i].numero_operacion = k})

\* C23: when the read of the persisted keys fails, upsert_data ends with an
\* error and has written nothing; the batch is not classified against an
\* empty key set and inserted.
LookupFailureFatal ==
    \A p \in Clients :
        fault[p] = "lookup"
            => /\ operaciones = pre[p]
               /\ lpc[p] = "idle" => outcome[p] = "raised"

\* C1: upsert_data(R) that returned, followed immediately by upsert_data(R)
\* for a batch R with distinct keys, leaves the table (row count and every
\* field of every row) as it was after the first call.
IdempotentLoad ==
    \A p \in Clients :
        (Ended(p) /\ outcome[p] = "returned" /\ prev[p].outcome = "returned"
            /\ prev[p].df = ldf[p] /\ DistinctKeys(ldf[p]))
        => operaciones = pre[p]

\* C2: a call of upsert_data either returns with rows_inserted + rows_updated
\* covering the whole batch, or raises and leaves the table exactly as it
\* was when the call started.
AtomicBatch ==
    \A p \in Clients :
        Ended(p) =>
            \/ /\ outcome[p] = "returned"
               /\ load_stats[p].rows_inserted + load_stats[p].rows_updated = Len(ldf[p])
            \/ /\ outcome[p] = "raised"
               /\ operaciones = pre[p]

\* C3: the operations table never holds two rows with one numero_operacion.
UniqueBusinessKey == DistinctKeys(operaciones)

\* C4: for a batch with distinct keys, a call that returned reports
\* rows_inserted = the records whose key was absent when the call started
\* and rows_updated = the records whose key was present.
UpsertCounts ==
    \A p \in Clients :
        (Ended(p) /\ outcome[p] = "returned" /\ DistinctKeys(ldf[p]))
        => LET absent == {i \in 1..Len(ldf[p]) :
                            ldf[p][i].numero_operacion \notin KeysOf(pre[p])}
           IN  /\ load_stats[p].rows_inserted = Cardinality(absent)
               /\ load_stats[p].rows_updated = Len(ldf[p]) - Cardinality(absent)

\* The row loader p wrote, or would write, for key k.
WrittenBy(p, k) ==
    LET mine(r) == r.numero_operacion = k
    IN  StoreRow(Head(SelectSeq(ldf[p], mine)), fecha_carga[p])

\* Keys both batches hold that were in the store before either call.
SharedKeys ==
    {k \in Keys : \A p \in Loaders : k \in KeysOf(ldf[p]) /\ k \in KeysOf(pre[p])}

\* C24: after two concurrent upsert_data calls whose batches share keys that
\* were in the store have both returned, the stored rows of all shared keys
\* carry the values of one and the same call; the store does not end with
\* some shared keys written by one call and others by the other.
LastWriteWins ==
    (/\ \A p \in Loaders : Done(p) /\ fault[p] = "none" /\ DistinctKeys(ldf[p])
     /\ \E k \in SharedKeys : WrittenBy("L1", k).monto # WrittenBy("L2", k).monto)
        => \E p \in Loaders :
              \A i \in 1..Len(operaciones) :
                  operaciones[i].numero_operacion \in SharedKeys
                      => operaciones[i] = WrittenBy(p, operaciones[i].numero_operacion)

\* Records a and b agree on every column of cols.
Agree(cols, a, b) == \A j \in 1..Len(cols) : a[cols[j]] = b[cols[j]]

\* Table tbl after an upsert of rows src keyed by cols: a stored row that
\* agrees with a record on cols is overwritten by it, a record no stored row
\* agrees with is added.
UpsertedBy(cols, tbl, src) ==
    LET matched(r) == \E i \in 1..Len(tbl) : Agree(cols, tbl[i], r)
        unmatched(r) == ~matched(r)
        over(i) == {j \in 1..Len(src) : Agree(cols, tbl[i], src[j])}
    IN  [i \in 1..Len(tbl) |->
            IF over(i) = {} THEN tbl[i] ELSE src[CHOOSE j \in over(i) : TRUE]]
        \o SelectSeq(src, unmatched)

\* A returned upsert_data left the table it was given as an upsert keyed by
\* the conflict columns it was given leaves it.
Addressed ==
    \A p \in Clients :
        (/\ Done(p) /\ outcome[p] = "returned" /\ fault[p] = "none"
         /\ \A i, j \in 1..Len(ldf[p]) :
               i # j => ~Agree(conflict_columns[p], ldf[p][i], ldf[p][j]))
            => Table(table_name[p]) =
                  UpsertedBy(conflict_columns[p], pre[p], Stamp(ldf[p], fecha_carga[p]))

\* A step of an upsert_data call writes to no table but the one it was given.
OnTarget ==
    \A p \in Clients :
        lpc[p] # "idle" => \A name \in TableNames \ {table_name[p]} :
                              Table(name)' = Table(name)

\* C25: upsert_data classifies the records and matches the row to overwrite
\* by the caller's conflict_columns in the caller's table_name; every read
\* and write of the call targets table_name, and an existing record
\* overwrites every field of the row it matches.
UpsertAddressed == []Addressed /\ [][OnTarget]_vars

\* C5: when both loaders upsert a key that was absent when each of them
\* partitioned its batch, and the store answered every round trip, both
\* calls return and the table holds exactly one row for that key.
InsertRaceResolved ==
    \A k \in Keys :
        (\A p \in Loaders :
            /\ Ended(p) /\ fault[p] \in {"none", "constraint"}
            /\ DistinctKeys(ldf[p])
            /\ k \in KeysOf(ldf[p])
            /\ k \notin KeysOf(pre[p])
            /\ k \notin existing_ids[p])
        => /\ \A p \in Loaders : outcome[p] = "returned"
           /\ RowsWithKey(k) = 1

TypeLoad ==
    /\ db_type \in {"sqlite", "sqlserver"}
    /\ lpc \in [Loaders -> {"idle", "read_sql", "to_sql", "update", "merge"}]
    /\ \A p \in Loaders : load_stats[p].total_processed <= MaxBatch
    /\ \A p \in Loaders : ncalls[p] <= callcap[p]

=============================================================================
